---- MODULE Spec2Model ----
(***************************************************************************)
(* A model of fist ("Fast fIlesystem Stat Tool", src/fist.c): main, the    *)
(* recursive dir_lookup walk, print_metadata and                           *)
(* print_percent_encoded_char, run against a small POSIX file tree.        *)
(*                                                                         *)
(* Characters are their byte codes, strings are sequences of byte codes.   *)
(***************************************************************************)
EXTENDS Integers, Sequences, FiniteSets, TLC

VARIABLES
    \* ---- the environment: the file tree and the command line
    kind,       \* node -> "dir" | "reg" | "lnk"      (st_mode's type bits)
    dev,        \* node -> device id                  (st_dev)
    rev,        \* whether readdir returns the listings in reverse order
    argc,       \* main's argc
    argv1,      \* main's argv[1]
    \* ---- the process
    pc,         \* main's position
    cwd,        \* the process's current working directory (a node)
    st,         \* main's struct stat: [mode, dev]
    stack,      \* the active dir_lookup invocations, innermost last
    ret,        \* the value the last finished dir_lookup returned
    out,        \* standard output: the records, in order
    err,        \* standard error: the diagnostics, in order
    status,     \* the exit status, -1 while running
    ndirp,      \* directory handles opened and not yet given to closedir
    nfail,      \* system calls that failed so far for an outside reason
    log,        \* history: the lstat results and dir_lookup calls of the walk
    \* ---- print_percent_encoded_char applied to a byte string
    s,          \* the bytes given so far
    enc,        \* what was written for them
    \* ---- print_metadata's first field
    st_blocks,  \* st->st_blocks, a 64-bit count as four 16-bit limbs
    field       \* the printed unsigned int, as two 16-bit limbs; <<>> before

vars == <<kind, dev, rev, argc, argv1, pc, cwd, st, stack, ret, out, err,
          status, ndirp, nfail, log, s, enc, st_blocks, field>>

\* the file tree and the command line, which no step changes
env == <<kind, dev, rev, argc, argv1>>

\* the variables of the pure functions, which the walk leaves alone
pure == <<s, enc, st_blocks, field>>

walkvars == <<kind, dev, rev, argc, argv1, pc, cwd, st, stack, ret, out, err,
              status, ndirp, nfail, log>>

\* ---------------------------------------------------------------- bounds

\* limits.h PATH_MAX, scaled down to the depth of the modelled tree
PATH_MAX == 6

\* how many system calls of one run may fail for an outside reason
MaxFail == 1

\* how many bytes a string given to the encoder has at most
MaxLen == 3

\* ------------------------------------------------------------ characters

\* a char * that is NULL (no C string holds a NUL byte)
NULL == <<0>>

Dot == <<46>>
DotDot == <<46, 46>>
Slash == <<47>>
Arrow == <<32, 45, 62, 32>>

HexDigits == <<48, 49, 50, 51, 52, 53, 54, 55, 56, 57, 65, 66, 67, 68, 69, 70>>

\* the two hex digits of a value 0..255
Hex2(n) == <<HexDigits[(n \div 16) + 1], HexDigits[(n % 16) + 1]>>

\* printf("%02X", (int) c): the int is read as a 32-bit unsigned value
Fmt02X(c) ==
    IF c >= 0 THEN Hex2(c)
    ELSE <<70, 70, 70, 70, 70, 70>> \o Hex2(c + 256)

\* printf("%02hhX", (int) c): the int is first converted to unsigned char
Fmt02hhX(c) == Hex2(c % 256)

\* the conversion of an unsigned char to the parameter "const char c"
ToChar(b) == IF b >= 128 THEN b - 256 ELSE b

\* the case labels of print_percent_encoded_char's switch
EscapedCases ==
    {8, 10, 13, 9, 32, 33, 34, 35, 36, 37, 38, 39, 40, 41, 42, 43, 44, 58,
     59, 60, 61, 62, 63, 64, 91, 92, 93, 96, 123, 124, 125, 126, 27, 127}

\* isprint in the "C" locale (the program never calls setlocale)
isprint(c) == c >= 32 /\ c <= 126

print_percent_encoded_char_NoHH(b) ==
    LET c == ToChar(b) IN
    IF c \in EscapedCases THEN <<37>> \o Fmt02X(c)
    ELSE IF isprint(c) THEN <<c>>
    ELSE <<37>> \o Fmt02X(c)

\* what print_percent_encoded_char writes for the byte b
print_percent_encoded_char(b) ==
    LET c == ToChar(b) IN
    IF c \in EscapedCases THEN <<37>> \o Fmt02X(c)
    ELSE IF isprint(c) THEN <<c>>
    ELSE <<37>> \o Fmt02hhX(c)

\* the loops of print_metadata over a name: one call per byte
RECURSIVE EncodeStr(_)
EncodeStr(str) ==
    IF str = <<>> THEN <<>>
    ELSE print_percent_encoded_char(Head(str)) \o EncodeStr(Tail(str))

\* ------------------------------------------------------------ the file tree

\* "up" is the directory holding the root argument; "r" is the root argument;
\* a and b are entries of r; ab and ac are entries of a; abc is an entry of ab.
Nodes == {"up", "r", "a", "b", "ab", "ac", "abc"}

NoNode == "none"

ParentOf(n) ==
    CASE n = "up" -> "up"
      [] n = "r" -> "up"
      [] n \in {"a", "b"} -> "r"
      [] n \in {"ab", "ac"} -> "a"
      [] n = "abc" -> "ab"

\* the entry names: r, a, b, a/b, a/: and a/b/:
NameOf(n) ==
    CASE n = "r" -> <<114>>
      [] n = "a" -> <<97>>
      [] n \in {"b", "ab"} -> <<98>>
      [] n \in {"ac", "abc"} -> <<58>>
      [] n = "up" -> Slash

\* what each symbolic link holds: the name of a directory beside it
TargetOf(n) == IF n = "b" THEN <<97>> ELSE <<98>>

\* argv[1] is "." or the absolute name of r
RootAbs == <<47, 114>>
RootArgs == {Dot, RootAbs}

ChildrenOf(n) == {m \in Nodes \ {"up"} : ParentOf(m) = n}

\* the children's names in the order the directory stores them
ChildNames(n) ==
    CASE n = "up" -> <<NameOf("r")>>
      [] n = "r" -> <<NameOf("a"), NameOf("b")>>
      [] n = "a" -> <<NameOf("ab"), NameOf("ac")>>
      [] n = "ab" -> <<NameOf("abc")>>
      [] OTHER -> <<>>

Reverse(q) == [i \in 1..Len(q) |-> q[Len(q) + 1 - i]]

\* the names readdir returns for an open directory, in order
Listing(n) ==
    LET l == <<Dot, DotDot>> \o ChildNames(n) IN IF rev THEN Reverse(l) ELSE l

\* name resolution relative to the directory c, for the names the program uses
Lookup(c, p) ==
    IF p = RootAbs THEN "r"
    ELSE IF c = NoNode THEN NoNode
    ELSE IF p = Dot THEN c
    ELSE IF p = DotDot THEN ParentOf(c)
    ELSE IF kind[c] = "dir" /\ \E m \in ChildrenOf(c) : NameOf(m) = p
         THEN CHOOSE m \in ChildrenOf(c) : NameOf(m) = p
    ELSE NoNode

\* what lstat fills in for a node
Stat(n) == [mode |-> kind[n], dev |-> dev[n]]

\* the file trees of the model: "up" is on device 1 and r on device 1 or 2
\* (r may itself be a mount point); a directory below r on the other device
\* than r is a mount point; what lies below a non-directory or a mount
\* point is fixed, because the walk never gets there
Canonical(n) == IF n = "ab" THEN "dir" ELSE "reg"

TreeOK(k, d) ==
    /\ k["up"] = "dir" /\ d["up"] = 1 /\ k["r"] = "dir"
    /\ k["a"] \in {"dir", "reg"}
    /\ k["b"] \in {"dir", "reg", "lnk"} /\ (k["b"] # "dir" => d["b"] = d["r"])
    /\ k["ab"] \in {"dir", "reg"}
    /\ k["ac"] \in {"dir", "reg", "lnk"}
    /\ k["abc"] \in {"dir", "reg"}
    /\ \A n \in {"a", "ab", "ac", "abc"} :
         LET p == ParentOf(n) IN
         /\ (k[n] # "dir" \/ n \in {"ac", "abc"}) => d[n] = d[p]
         /\ (k[p] # "dir" \/ d[p] # d["r"]) => (k[n] = Canonical(n) /\ d[n] = d[p])

\* ------------------------------------------------------------ the C library

\* strlcpy(dst, src, siz): the value returned and what dst holds afterwards
strlcpy(src, siz) ==
    [ret |-> Len(src),
     dst |-> SubSeq(src, 1, IF Len(src) < siz - 1 THEN Len(src) ELSE siz - 1)]

\* strlcat(dst, src, siz), for a dst shorter than siz
strlcat(dst, src, siz) ==
    LET all == dst \o src IN
    [ret |-> Len(dst) + Len(src),
     dst |-> SubSeq(all, 1, IF Len(all) < siz - 1 THEN Len(all) ELSE siz - 1)]

\* a test that forgets "..": name[0] == '.' && name[1] == '\0'
IsDotOrDotDot_OnlyDot(name) ==
    LET at(i) == IF i <= Len(name) THEN name[i] ELSE 0 IN
    at(1) = 46 /\ at(2) = 0

\* the test of dir_lookup and print_metadata on a NUL-terminated name:
\* name[0] == '.' && (name[1] == '\0' || (name[1] == '.' && name[2] == '\0'))
IsDotOrDotDot(name) ==
    LET at(i) == IF i <= Len(name) THEN name[i] ELSE 0 IN
    at(1) = 46 /\ (at(2) = 0 \/ (at(2) = 46 /\ at(3) = 0))

\* ------------------------------------------------------------ diagnostics

\* warning(): one line on standard error, what failed and the name in the
\* message; the caller goes on
Diag(what, arg) == [what |-> what, arg |-> arg, fatal |-> FALSE]

\* error(1, ...), and main's usage message followed by exit(1): one line on
\* standard error, and the process exits
Fatal(what, arg) == [what |-> what, arg |-> arg, fatal |-> TRUE]

\* ------------------------------------------------------------ print_metadata

\* the text of a record after its nine numeric fields
Line(rec) ==
    rec.path \o (IF rec.mode = "lnk" THEN Arrow \o rec.target ELSE <<>>)

\* print_metadata without its first test: "." and ".." are printed too
print_metadata_NoSuppress(name, parent, stt, rl) ==
    LET path == (IF parent # NULL THEN EncodeStr(parent) \o Slash ELSE <<>>)
                  \o EncodeStr(name)
        lnvalue == IF rl = NULL THEN <<>> ELSE rl
    IN [out |-> <<[mode |-> stt.mode, path |-> path,
                   target |-> IF stt.mode = "lnk" THEN EncodeStr(lnvalue)
                              ELSE <<>>]>>,
        err |-> IF stt.mode = "lnk" /\ rl = NULL
                THEN <<Diag("readlink", name)>> ELSE <<>>]

\* print_metadata(stdout, name, parent, st): the records written (none or
\* one) and the warnings; rl is what readlink returns (-1, or the target)
print_metadata(name, parent, stt, rl) ==
    IF stt.mode = "dir" /\ parent # NULL /\ IsDotOrDotDot(name)
    THEN [out |-> <<>>, err |-> <<>>]
    ELSE
      LET path == (IF parent # NULL THEN EncodeStr(parent) \o Slash ELSE <<>>)
                    \o EncodeStr(name)
          lnvalue == IF rl = NULL THEN <<>> ELSE rl
      IN [out |-> <<[mode |-> stt.mode, path |-> path,
                     target |-> IF stt.mode = "lnk" THEN EncodeStr(lnvalue)
                                ELSE <<>>]>>,
          err |-> IF stt.mode = "lnk" /\ rl = NULL
                  THEN <<Diag("readlink", name)>> ELSE <<>>]

\* ------------------------------------------------------------ the walk

\* one activation of dir_lookup(dev, thisdir, parent)
Frame(d, thisdir, parent) ==
    [dev |-> d, thisdir |-> thisdir, parent |-> parent, at |-> "opendir",
     node |-> NoNode, rest |-> <<>>, r |-> 0]

Top == stack[Len(stack)]

\* the stack after the innermost dir_lookup returns v: "r = dir_lookup(...)"
\* in the caller's loop, or main's test of the value
Returned(v) ==
    LET n == Len(stack) IN
    IF n = 1 THEN <<>>
    ELSE [i \in 1..(n - 1) |->
            IF i = n - 1 THEN [stack[i] EXCEPT !.r = v] ELSE stack[i]]

\* the innermost activation replaced by f
WithTop(f) == [stack EXCEPT ![Len(stack)] = f]

\* a system call fails for an outside reason (EACCES, EIO, a race with
\* another process) at most MaxFail times in a run
MayFail(fail) == fail => nfail < MaxFail
Count(fail) == nfail + (IF fail THEN 1 ELSE 0)

Logged(ev, parent, name, stt, node) ==
    [ev |-> ev, parent |-> parent, name |-> name, mode |-> stt.mode,
     dev |-> stt.dev, node |-> node]

\* the condition without the device test
Descends_NoDevCheck(stt, d, name) ==
    stt.mode = "dir" /\ ~IsDotOrDotDot(name)

\* the condition as stat instead of lstat would give it: a link counts as
\* the directory it names
Descends_FollowsLinks(stt, d, name) ==
    stt.mode \in {"dir", "lnk"} /\ stt.dev = d /\ ~IsDotOrDotDot(name)

\* the condition under which dir_lookup looks inside an entry
Descends(stt, d, name) ==
    stt.mode = "dir" /\ stt.dev = d /\ ~IsDotOrDotDot(name)

\* the three length checks that build pwd: which one fails ("" when none)
\* and the pwd built
BuildPwd(parent, name) ==
    LET c1 == strlcpy(parent, PATH_MAX)
        c2 == strlcat(c1.dst, Slash, PATH_MAX)
        c3 == strlcat(c2.dst, name, PATH_MAX)
    IN IF c1.ret >= PATH_MAX THEN [bad |-> "parent", pwd |-> c1.dst]
       ELSE IF c2.ret >= PATH_MAX THEN [bad |-> "pwd", pwd |-> c2.dst]
       ELSE IF c3.ret >= PATH_MAX THEN [bad |-> "d_name", pwd |-> c3.dst]
       ELSE [bad |-> "", pwd |-> c3.dst]

\* main: if (argc != 2) { fprintf(stderr, ...); exit(1); }
MainArgs ==
    /\ pc = "args"
    /\ IF argc # 2
       THEN /\ err' = Append(err, Fatal("usage", <<>>))
            /\ status' = 1
            /\ pc' = "exit"
       ELSE /\ pc' = "chdir"
            /\ UNCHANGED <<err, status>>
    /\ UNCHANGED <<pure, env, cwd, st, stack, ret, out, ndirp, nfail, log>>

\* main: if (chdir(argv[1]) == -1) error(1, ...)
MainChdir ==
    /\ pc = "chdir"
    /\ \E fail \in BOOLEAN :
         /\ MayFail(fail)
         /\ nfail' = Count(fail)
         /\ IF fail
            THEN /\ err' = Append(err, Fatal("chdir", argv1))
                 /\ status' = 1
                 /\ pc' = "exit"
                 /\ log' = Append(log, Logged("rootfail", argv1, argv1, st, NoNode))
                 /\ UNCHANGED cwd
            ELSE /\ cwd' = Lookup(cwd, argv1)
                 /\ pc' = "lstat"
                 /\ UNCHANGED <<err, status, log>>
    /\ UNCHANGED <<pure, env, st, stack, ret, out, ndirp>>

\* main reporting a failed lstat with warning() instead of error(): it goes on
MainLstat_Warns ==
    /\ pc = "lstat"
    /\ \E fail \in BOOLEAN :
         /\ MayFail(fail)
         /\ nfail' = Count(fail)
         /\ IF fail
            THEN /\ err' = Append(err, Diag("lstat", argv1))
                 /\ pc' = "print"
                 /\ UNCHANGED status
                 /\ log' = Append(log, Logged("rootfail", argv1, argv1, st, NoNode))
                 /\ UNCHANGED st
            ELSE /\ st' = Stat(Lookup(cwd, argv1))
                 /\ pc' = "print"
                 /\ UNCHANGED <<err, status, log>>
    /\ UNCHANGED <<pure, env, cwd, stack, ret, out, ndirp>>

\* main: if (lstat(argv[1], &st) == -1) error(1, ...)
MainLstat ==
    /\ pc = "lstat"
    /\ \E fail \in BOOLEAN :
         /\ MayFail(fail)
         /\ nfail' = Count(fail)
         /\ IF fail
            THEN /\ err' = Append(err, Fatal("lstat", argv1))
                 /\ status' = 1
                 /\ pc' = "exit"
                 /\ log' = Append(log, Logged("rootfail", argv1, argv1, st, NoNode))
                 /\ UNCHANGED st
            ELSE /\ st' = Stat(Lookup(cwd, argv1))
                 /\ pc' = "print"
                 /\ UNCHANGED <<err, status, log>>
    /\ UNCHANGED <<pure, env, cwd, stack, ret, out, ndirp>>

\* main: print_metadata(stdout, argv[1], NULL, &st); r is a directory, so
\* print_metadata does not call readlink here
MainPrint ==
    /\ pc = "print"
    /\ LET p == print_metadata(argv1, NULL, st, NULL) IN
         /\ out' = out \o p.out
         /\ err' = err \o p.err
    /\ pc' = "call"
    /\ UNCHANGED <<pure, env, cwd, st, stack, ret, status, ndirp, nfail, log>>

\* main: dir_lookup(st.st_dev, argv[1], argv[1]) is entered
MainCall ==
    /\ pc = "call"
    /\ stack' = <<Frame(st.dev, argv1, argv1)>>
    /\ log' = Append(log, Logged("call", argv1, argv1, st, NoNode))
    /\ pc' = "walk"
    /\ UNCHANGED <<pure, env, cwd, st, ret, out, err, status, ndirp, nfail>>

\* main: if (dir_lookup(...)) warning(...); return (0);
MainReturn ==
    /\ pc = "walk" /\ stack = <<>>
    /\ err' = IF ret # 0 THEN Append(err, Diag("traversing", argv1)) ELSE err
    /\ status' = 0
    /\ pc' = "exit"
    /\ UNCHANGED <<pure, env, cwd, st, stack, ret, out, ndirp, nfail, log>>

\* opendir's failure reported but not returned from: the loop runs anyway
Opendir_NoReturn ==
    /\ pc = "walk" /\ stack # <<>> /\ Top.at = "opendir"
    /\ LET n == Lookup(cwd, Top.thisdir) IN
       \E fail \in BOOLEAN :
         /\ MayFail(fail)
         /\ nfail' = Count(fail)
         /\ IF fail \/ n = NoNode \/ kind[n] # "dir"
            THEN /\ err' = Append(err, Diag("opendir", Top.parent))
                 /\ stack' = WithTop([Top EXCEPT !.at = "chdir", !.node = n,
                                                 !.rest = Listing(n)])
                 /\ UNCHANGED <<ndirp, ret>>
            ELSE /\ stack' = WithTop([Top EXCEPT !.at = "chdir", !.node = n,
                                                 !.rest = Listing(n)])
                 /\ ndirp' = ndirp + 1
                 /\ UNCHANGED <<err, ret>>
    /\ UNCHANGED <<pure, env, pc, cwd, st, out, status, log>>

\* dir_lookup: if ((dirp = opendir(thisdir)) == NULL) { warning; return (-1); }
Opendir ==
    /\ pc = "walk" /\ stack # <<>> /\ Top.at = "opendir"
    /\ LET n == Lookup(cwd, Top.thisdir) IN
       \E fail \in BOOLEAN :
         /\ MayFail(fail)
         /\ nfail' = Count(fail)
         /\ IF fail \/ n = NoNode \/ kind[n] # "dir"
            THEN /\ err' = Append(err, Diag("opendir", Top.parent))
                 /\ stack' = Returned(-1)
                 /\ ret' = -1
                 /\ UNCHANGED ndirp
            ELSE /\ stack' = WithTop([Top EXCEPT !.at = "chdir", !.node = n,
                                                 !.rest = Listing(n)])
                 /\ ndirp' = ndirp + 1
                 /\ UNCHANGED <<err, ret>>
    /\ UNCHANGED <<pure, env, pc, cwd, st, out, status, log>>

\* dir_lookup: if (chdir(thisdir) == -1) { warning; return (-1); }
Chdir ==
    /\ pc = "walk" /\ stack # <<>> /\ Top.at = "chdir"
    /\ LET n == Lookup(cwd, Top.thisdir) IN
       \E fail \in BOOLEAN :
         /\ MayFail(fail)
         /\ nfail' = Count(fail)
         /\ IF fail \/ n = NoNode \/ kind[n] # "dir"
            THEN /\ err' = Append(err, Diag("chdir", Top.thisdir))
                 /\ stack' = Returned(-1)
                 /\ ret' = -1
                 /\ UNCHANGED cwd
            ELSE /\ cwd' = n
                 /\ stack' = WithTop([Top EXCEPT !.at = "loop"])
                 /\ UNCHANGED <<err, ret>>
    /\ UNCHANGED <<pure, env, pc, st, out, status, ndirp, log>>

\* dir_lookup: readdir returns NULL and the while loop ends
ReaddirEnd ==
    /\ pc = "walk" /\ stack # <<>> /\ Top.at = "loop" /\ Top.rest = <<>>
    /\ stack' = WithTop([Top EXCEPT !.at = "closedir"])
    /\ UNCHANGED <<pure, env, pc, cwd, st, ret, out, err, status, ndirp, nfail, log>>

\* dir_lookup: one turn of the while loop: readdir, lstat, print_metadata,
\* and for a directory to look inside, the pwd checks and the recursive call
ReaddirEntry ==
    /\ pc = "walk" /\ stack # <<>> /\ Top.at = "loop" /\ Top.rest # <<>>
    /\ LET name == Head(Top.rest)
           n == Lookup(cwd, name)
           read == [Top EXCEPT !.rest = Tail(Top.rest)]
       IN
       \E lfail \in BOOLEAN, rfail \in BOOLEAN :
         /\ MayFail(lfail \/ rfail)
         /\ rfail => (~lfail /\ n # NoNode /\ kind[n] = "lnk")
         /\ nfail' = Count(lfail \/ rfail)
         /\ IF lfail \/ n = NoNode
            THEN \* lstat fails: warning, continue
                 /\ err' = Append(err, Diag("lstat", Top.parent \o Slash \o name))
                 /\ stack' = WithTop(read)
                 /\ UNCHANGED <<out, log>>
            ELSE LET stt == Stat(n)
                     p == print_metadata(name, Top.parent, stt,
                                         IF rfail THEN NULL ELSE TargetOf(n))
                     b == BuildPwd(Top.parent, name)
                     seen == Append(log, Logged("lstat", Top.parent, name, stt, n))
                 IN
                 /\ out' = out \o p.out
                 /\ IF ~Descends(stt, Top.dev, name)
                    THEN /\ err' = err \o p.err
                         /\ stack' = WithTop(read)
                         /\ log' = seen
                    ELSE IF b.bad # ""
                    THEN \* a name is too long: warning, break
                         /\ err' = err \o p.err \o <<Diag("too long", b.bad)>>
                         /\ stack' = WithTop([read EXCEPT !.at = "closedir"])
                         /\ log' = Append(seen, Logged("overflow", Top.parent,
                                                       name, stt, Top.node))
                    ELSE \* r = dir_lookup(dev, dp->d_name, pwd) is entered
                         /\ err' = err \o p.err
                         /\ stack' = Append(WithTop(read),
                                            Frame(Top.dev, name, b.pwd))
                         /\ log' = Append(seen, Logged("call", b.pwd, name, stt, n))
    /\ UNCHANGED <<pure, env, pc, cwd, st, ret, status, ndirp>>

\* dir_lookup: if (closedir(dirp) == -1) warning(...)
Closedir ==
    /\ pc = "walk" /\ stack # <<>> /\ Top.at = "closedir"
    /\ \E fail \in BOOLEAN :
         /\ MayFail(fail)
         /\ nfail' = Count(fail)
         /\ err' = IF fail THEN Append(err, Diag("closedir", Top.thisdir)) ELSE err
    /\ ndirp' = ndirp - 1
    /\ stack' = WithTop([Top EXCEPT !.at = "chdirup"])
    /\ UNCHANGED <<pure, env, pc, cwd, st, ret, out, status, log>>

\* dir_lookup: if (chdir("..") == -1) { warning; return (-1); } return (r);
ChdirUp ==
    /\ pc = "walk" /\ stack # <<>> /\ Top.at = "chdirup"
    /\ \E fail \in BOOLEAN :
         /\ MayFail(fail)
         /\ nfail' = Count(fail)
         /\ IF fail
            THEN /\ err' = Append(err, Diag("chdir", Top.parent))
                 /\ stack' = Returned(-1)
                 /\ ret' = -1
                 /\ UNCHANGED cwd
            ELSE /\ cwd' = Lookup(cwd, DotDot)
                 /\ stack' = Returned(Top.r)
                 /\ ret' = Top.r
                 /\ UNCHANGED err
    /\ UNCHANGED <<pure, env, pc, st, out, status, ndirp, log>>

\* ------------------------------------------------------------ specification

EncIdle == s = <<>> /\ enc = <<>>
BlocksIdle == st_blocks = <<0, 0, 0, 0>> /\ field = <<>>

FileTree ==
    /\ kind \in [Nodes -> {"dir", "reg", "lnk"}]
    /\ dev \in [Nodes -> {1, 2}]
    /\ TreeOK(kind, dev)
    /\ rev \in BOOLEAN

Init ==
    /\ FileTree
    /\ argc \in {1, 2, 3}
    /\ argv1 \in RootArgs
    /\ pc = "args"
    /\ cwd = IF argv1 = Dot THEN "r" ELSE "up"
    /\ st = [mode |-> "reg", dev |-> 0]
    /\ stack = <<>>
    /\ ret = 0
    /\ out = <<>>
    /\ err = <<>>
    /\ status = -1
    /\ ndirp = 0
    /\ nfail = 0
    /\ log = <<>>
    /\ EncIdle /\ BlocksIdle

Next ==
    \/ MainArgs \/ MainChdir \/ MainLstat \/ MainPrint \/ MainCall \/ MainReturn
    \/ Opendir \/ Chdir \/ ReaddirEntry \/ ReaddirEnd \/ Closedir \/ ChdirUp

Spec == Init /\ [][Next]_vars

\* the process is sequential and every call of the model returns: a step that
\* can be taken is taken
FairSpec == Spec /\ WF_vars(Next)

\* a process that has exited, for the specifications of the pure functions
WalkIdle ==
    /\ kind = [n \in Nodes |-> "dir"]
    /\ dev = [n \in Nodes |-> 1]
    /\ rev = FALSE
    /\ argc = 2
    /\ argv1 = Dot
    /\ pc = "exit"
    /\ cwd = "r"
    /\ st = [mode |-> "reg", dev |-> 0]
    /\ stack = <<>>
    /\ ret = 0
    /\ out = <<>>
    /\ err = <<>>
    /\ status = 0
    /\ ndirp = 0
    /\ nfail = 0
    /\ log = <<>>

\* ------------------------------------------------- the encoder on strings

\* the bytes a string continues with after its first byte: the escape
\* introducer, hex digits of both cases, delimiters, and bytes above 127
NextBytes == {0, 10, 32, 37, 47, 50, 53, 58, 65, 70, 97, 102, 128, 255}

\* print_metadata: for (c = name; *c != '\0'; c++) print_percent_encoded_char(*c, fp)
EncodeByte ==
    /\ Len(s) < MaxLen
    /\ \E b \in (IF s = <<>> THEN 0..255 ELSE NextBytes) :
         /\ s' = Append(s, b)
         /\ enc' = enc \o print_percent_encoded_char(b)
    /\ UNCHANGED <<st_blocks, field>>
    /\ UNCHANGED walkvars

InitEnc == WalkIdle /\ EncIdle /\ BlocksIdle

NextEnc == EncodeByte

SpecEnc == InitEnc /\ [][NextEnc]_vars

\* ------------------------------------------------- the blocks field

\* 64-bit values are four 16-bit limbs, least significant first
Limb(l, i) == IF i <= Len(l) THEN l[i] ELSE 0

\* l + 1 on 64 bits (st_blocks + 1; the model never gives it INT64_MAX)
AddOne(l) ==
    LET c1 == IF l[1] = 65535 THEN 1 ELSE 0
        c2 == IF c1 = 1 /\ l[2] = 65535 THEN 1 ELSE 0
        c3 == IF c2 = 1 /\ l[3] = 65535 THEN 1 ELSE 0
    IN <<(l[1] + 1) % 65536, (l[2] + c1) % 65536, (l[3] + c2) % 65536,
         (l[4] + c3) % 65536>>

\* l >> 1 on a non-negative 64-bit value
ShiftRight1(l) ==
    [i \in 1..4 |-> (l[i] \div 2) + (Limb(l, i + 1) % 2) * 32768]

\* the conversion (unsigned int): the low 32 bits
ToUnsignedInt(l) == <<l[1], l[2]>>

\* print_metadata: (unsigned int) ((st->st_blocks + 1) >> 1)
BlocksField(b) == ToUnsignedInt(ShiftRight1(AddOne(b)))

\* ceil(b / 2) as a 64-bit value: b div 2, plus one when b is odd
CeilHalf(b) == IF b[1] % 2 = 1 THEN AddOne(ShiftRight1(b)) ELSE ShiftRight1(b)

\* the block counts given: small ones, and ones around 2^16, 2^32, 2^33, 2^48
BlockCounts ==
    {<<l1, l2, l3, l4>> :
        l1 \in {0, 1, 2, 3, 4, 5, 65534, 65535}, l2 \in {0, 1, 65535},
        l3 \in {0, 1, 2}, l4 \in {0, 1}}

\* print_metadata writes the first field of a record
PrintBlocks ==
    /\ field = <<>>
    /\ field' = BlocksField(st_blocks)
    /\ UNCHANGED <<st_blocks, s, enc>>
    /\ UNCHANGED walkvars

InitBlocks == WalkIdle /\ EncIdle /\ st_blocks \in BlockCounts /\ field = <<>>

NextBlocks == PrintBlocks

SpecBlocks == InitBlocks /\ [][NextBlocks]_vars

\* ------------------------------------------------- reading the output

IsPrefix(p, q) == Len(p) <= Len(q) /\ SubSeq(q, 1, Len(p)) = p

\* the path q names something strictly below the path p
Below(q, p) == Len(q) > Len(p) + 1 /\ IsPrefix(p \o Slash, q)

\* the path field print_metadata writes for the entry name of parent
PathText(parent, name) == EncodeStr(parent) \o Slash \o EncodeStr(name)

\* how many records carry the path p
CountPath(p) == Cardinality({i \in DOMAIN out : out[i].path = p})

\* the text after the last '/' of a path
RECURSIVE BaseName(_)
BaseName(p) ==
    IF \A i \in DOMAIN p : p[i] # 47 THEN p
    ELSE BaseName(Tail(p))

Exited == pc = "exit"

\* the lstat results of the walk's loops, and the dir_lookup calls
Lstats == {i \in DOMAIN log : log[i].ev = "lstat"}
Calls == {i \in DOMAIN log : log[i].ev = "call"}
Overflows == {i \in DOMAIN log : log[i].ev = "overflow"}

\* C1: dir_lookup is never entered for an entry whose lstat'ed device id is
\* not the one lstat'ed for the root argument; an entry lstat'ed as such a
\* directory (a mount point) has exactly one record, and no record and no
\* dir_lookup call has a path below it.
InvC1 ==
    /\ \A i \in Calls : log[i].dev = st.dev
    /\ \A i \in Lstats :
         (log[i].mode = "dir" /\ log[i].dev # st.dev
            /\ ~IsDotOrDotDot(log[i].name))
         => LET p == PathText(log[i].parent, log[i].name) IN
            /\ CountPath(p) = 1
            /\ \A j \in DOMAIN out : ~Below(out[j].path, p)
            /\ \A j \in Calls :
                 log[j].parent # log[i].parent \o Slash \o log[i].name

\* a finished walk that met a mount point with entries below it, and wrote
\* more records after the mount point's
WitC1 ==
    /\ Exited /\ status = 0
    /\ \E i \in Lstats :
         /\ log[i].mode = "dir" /\ log[i].dev # st.dev
         /\ ChildrenOf(log[i].node) # {}
         /\ \E j \in DOMAIN out :
              /\ out[j].path = PathText(log[i].parent, log[i].name)
              /\ j < Len(out)

\* the paths of the file tree: argv[1] for r, parent/name below it
RECURSIVE RawPathOf(_)
RawPathOf(n) ==
    IF n = "r" THEN argv1 ELSE RawPathOf(ParentOf(n)) \o Slash \o NameOf(n)

\* the nodes below r that are reached by descending only through real
\* directories on r's device
RECURSIVE Reached(_)
Reached(n) ==
    LET p == ParentOf(n) IN
    IF p = "r" THEN TRUE
    ELSE kind[p] = "dir" /\ dev[p] = dev["r"] /\ Reached(p)

Expected ==
    {EncodeStr(argv1)}
      \cup {EncodeStr(RawPathOf(n)) : n \in {m \in Nodes \ {"up", "r"} : Reached(m)}}

\* C2: in a finished run in which no system call failed and no path was too
\* long (nothing was written to standard error), the records are exactly one
\* for the root argument and one for every entry reached from it through
\* real directories on its device; no path is written twice.
InvC2 ==
    (Exited /\ status = 0 /\ err = <<>>)
    => /\ {out[i].path : i \in DOMAIN out} = Expected
       /\ Len(out) = Cardinality(Expected)
       /\ out[1].path = EncodeStr(argv1)

\* a clean run that went two directories deep and also met a symbolic link
WitC2 ==
    /\ Exited /\ status = 0 /\ err = <<>>
    /\ \E i \in DOMAIN out : out[i].path = EncodeStr(RawPathOf("abc"))
    /\ \E i \in DOMAIN out : out[i].mode = "lnk"

\* C3 (as claimed): when the path of a subdirectory C of D is too long, only
\* the descent into C is given up: in a finished run with no failed system
\* call, C has its record, the warning was issued, and every entry of D has
\* its record.
InvC3 ==
    (Exited /\ nfail = 0)
    => \A i \in Overflows :
         /\ CountPath(PathText(log[i].parent, log[i].name)) = 1
         /\ \E j \in DOMAIN err : err[j].what = "too long"
         /\ \A m \in ChildrenOf(log[i].node) :
              CountPath(PathText(log[i].parent, NameOf(m))) = 1

\* C4 (as claimed): the directory handles opened and not yet closed are at
\* most as many as the active dir_lookup invocations.
InvC4 == ndirp <= Len(stack)

\* C5: a directory whose opendir fails has exactly one record, its own, and
\* no record below it; the failure is a warning, never an exit with status 1,
\* and the walk goes on to exit with status 0.
InvC5 ==
    \A i \in DOMAIN err :
      err[i].what = "opendir"
      => /\ ~err[i].fatal
         /\ CountPath(EncodeStr(err[i].arg)) = 1
         /\ \A j \in DOMAIN out : ~Below(out[j].path, EncodeStr(err[i].arg))
         /\ status # 1
         /\ Exited => status = 0

\* opendir failed on a directory below the root that has entries, and the
\* walk wrote another record afterwards and finished
WitC5 ==
    /\ Exited
    /\ \E i \in DOMAIN err, j \in Calls, k \in DOMAIN out :
         /\ err[i].what = "opendir"
         /\ log[j].parent = err[i].arg /\ j > 1
         /\ ChildrenOf(log[j].node) # {}
         /\ out[k].path = EncodeStr(err[i].arg) /\ k < Len(out)

\* C6: every entry lstat'ed as a symbolic link has exactly one record, of the
\* form path -> target, where the target is the link's text, or empty with a
\* readlink warning on standard error; dir_lookup is never entered for it;
\* a failed readlink never ends the run with status 1.
InvC6 ==
    \A i \in Lstats :
      log[i].mode = "lnk"
      => LET p == PathText(log[i].parent, log[i].name) IN
         /\ CountPath(p) = 1
         /\ \A j \in DOMAIN out :
              out[j].path = p
              => /\ out[j].mode = "lnk"
                 /\ Line(out[j]) = p \o Arrow \o out[j].target
                 /\ \/ out[j].target = EncodeStr(TargetOf(log[i].node))
                    \/ /\ out[j].target = <<>>
                       /\ \E k \in DOMAIN err :
                            err[k] = Diag("readlink", log[i].name)
         /\ \A j \in Calls : log[j].parent # log[i].parent \o Slash \o log[i].name
         /\ status # 1

\* a link whose readlink failed: its record has an empty target, and the
\* walk wrote another record afterwards and finished
WitC6 ==
    /\ Exited /\ status = 0
    /\ \E i \in Lstats, j \in DOMAIN out :
         /\ log[i].mode = "lnk"
         /\ out[j].path = PathText(log[i].parent, log[i].name)
         /\ out[j].target = <<>>
         /\ j < Len(out)

\* C7: no record after the root's has the base name "." or "..", dir_lookup
\* is entered for no such entry, and once main has printed, the first record
\* is the root argument's, also when the argument is ".".
InvC7 ==
    /\ \A j \in DOMAIN out : j > 1 => BaseName(out[j].path) \notin {Dot, DotDot}
    /\ \A i \in Calls : i > 1 => ~IsDotOrDotDot(log[i].name)
    /\ (pc \in {"call", "walk"} \/ (Exited /\ status = 0))
       => (out # <<>> /\ out[1].path = EncodeStr(argv1))

\* a finished walk of "." in which a listing below the root returned "." and
\* ".." and they were lstat'ed
WitC7 ==
    /\ Exited /\ argv1 = Dot /\ out # <<>> /\ out[1].path = Dot
    /\ \E i \in Lstats, j \in Lstats :
         /\ log[i].name = Dot /\ log[j].name = DotDot
         /\ log[i].parent # argv1 /\ log[j].parent = log[i].parent

\* standard percent-decoding: "%" and two hex digits (of either case) give
\* one byte, anything else stands for itself
IsHex(c) == c \in (48..57) \cup (65..70) \cup (97..102)
IsUpperHex(c) == c \in (48..57) \cup (65..70)
HexVal(c) == IF c <= 57 THEN c - 48 ELSE IF c <= 70 THEN c - 55 ELSE c - 87

RECURSIVE Decode(_)
Decode(t) ==
    IF t = <<>> THEN <<>>
    ELSE IF t[1] = 37 /\ Len(t) >= 3 /\ IsHex(t[2]) /\ IsHex(t[3])
    THEN <<16 * HexVal(t[2]) + HexVal(t[3])>> \o Decode(SubSeq(t, 4, Len(t)))
    ELSE <<t[1]>> \o Decode(Tail(t))

\* the text is a sequence of escapes ("%" and exactly two upper-case hex
\* digits) and of raw characters other than "%", ":", space and newline
RECURSIVE WellFormed(_)
WellFormed(t) ==
    IF t = <<>> THEN TRUE
    ELSE IF t[1] = 37
    THEN /\ Len(t) >= 3 /\ IsUpperHex(t[2]) /\ IsUpperHex(t[3])
         /\ WellFormed(SubSeq(t, 4, Len(t)))
    ELSE t[1] \notin {58, 32, 10} /\ WellFormed(Tail(t))

\* C8: decoding what the encoder wrote for a byte string gives the string
\* back (so two strings never share an encoding), and what it wrote consists
\* of escapes of two upper-case hex digits and of raw characters that are
\* none of "%", ":", space and newline.
InvC8 == Decode(enc) = s /\ WellFormed(enc)

\* the string "%25" was encoded, as "%2525"
WitC8 == s = <<37, 50, 53>> /\ enc = <<37, 50, 53, 50, 53>>

RootFailed == \E i \in DOMAIN log : log[i].ev = "rootfail"

\* C9: with an argument count other than one, or when chdir or lstat on the
\* root argument failed, the process has exited with status 1 and standard
\* output is empty; status 1 arises in no other run; a run that exits
\* otherwise exits with status 0 and the root's record first; and every run
\* exits.
InvC9 ==
    [](/\ ((argc # 2 /\ pc # "args") \/ RootFailed)
          => (Exited /\ status = 1 /\ out = <<>>)
       /\ status = 1 => (argc # 2 \/ RootFailed)
       /\ (Exited /\ argc = 2 /\ ~RootFailed)
          => (status = 0 /\ out # <<>> /\ out[1].path = EncodeStr(argv1)))
    /\ <>Exited

\* a run that exited with status 0 although a system call failed on an entry
WitC9 == Exited /\ status = 0 /\ nfail > 0 /\ Len(out) > 1

\* a run that exited with status 1 because lstat failed on the root argument
WitC9Fatal == Exited /\ status = 1 /\ RootFailed /\ cwd = "r"

\* C10 (as claimed): the printed first field is ceil(st_blocks / 2), none of
\* its bits lost.
InvC10 ==
    field # <<>> => <<field[1], field[2], 0, 0>> = CeilHalf(st_blocks)

\* the field is right for the counts whose half fits 32 bits
InvC10Fits ==
    (field # <<>> /\ CeilHalf(st_blocks)[3] = 0 /\ CeilHalf(st_blocks)[4] = 0)
    => <<field[1], field[2], 0, 0>> = CeilHalf(st_blocks)

\* the innermost dir_lookup is about to lstat an entry of its listing
AtLstat == pc = "walk" /\ stack # <<>> /\ Top.at = "loop" /\ Top.rest # <<>>

\* a dir_lookup entered from a listing is about to opendir its thisdir
AtChildOpendir == pc = "walk" /\ Len(stack) > 1 /\ Top.at = "opendir"

\* C11 (as claimed): whenever a dir_lookup lstats an entry of the directory
\* it listed, and whenever a child is about to be opened by name, the
\* working directory is the listed directory; and every entry lstat'ed under
\* a path (other than "." and "..") is the object at that path.
InvC11 ==
    /\ AtLstat => cwd = Top.node
    /\ AtChildOpendir => cwd = stack[Len(stack) - 1].node
    /\ \A i \in Lstats :
         ~IsDotOrDotDot(log[i].name)
         => RawPathOf(log[i].node) = log[i].parent \o Slash \o log[i].name

\* the same holds as long as no system call has failed
InvC11Clean == nfail = 0 => InvC11

====
